---- MODULE Spec2Model ----
(***************************************************************************)
(* Contact-form controller of www.gadgetcloud.io (src/src/js/main.js):     *)
(* the client-side rate limiter kept in localStorage, and the async        *)
(* submit handler with its honeypot guard, rate-limit guard, fetch call    *)
(* and terminal status rendering.                                          *)
(*                                                                         *)
(* One browser tab runs one instance of the handler.  JavaScript runs each *)
(* piece of the handler between two awaits to completion, so every action  *)
(* below is one such piece: the submit event up to `await fetch`, the      *)
(* continuation after fetch settles, and the continuation after            *)
(* `await response.json()` settles.                                        *)
(***************************************************************************)
EXTENDS Integers, Sequences, FiniteSets, TLC

VARIABLES
    now,            \* Date.now(), milliseconds
    ticks,          \* number of clock advances so far (bounds the model)
    access,         \* what the browser lets the page do with localStorage
    localStorage,   \* value stored under RATE_LIMIT_KEY
    tabs,           \* the tabs that are open on the contact page
    page,           \* per tab: window.location and document.referrer
    pc,             \* per tab: position of the submit handler
    honeypot,       \* per tab: value of input[name="_gotcha"]
    contactForm,    \* per tab: values of firstName, lastName, email, subject, message
    formStatus,     \* per tab: #formStatus (textContent, className, display)
    submitBtn,      \* per tab: button[type="submit"] (disabled, textContent)
    request,        \* per tab: body of the POST issued by the running handler
    response,       \* per tab: what fetch settled with, for the last handler
    outcome,        \* per tab: how the last run of the handler ended
    effects,        \* per tab: side effects of the last run, in program order
    labelBefore,    \* per tab: label of the submit control when the last run began
    deploy          \* one run of scripts/06_html_deploy.sh

siteVars == <<now, ticks, access, localStorage, tabs, page, pc, honeypot,
              contactForm, formStatus, submitBtn, request, response, outcome,
              effects, labelBefore>>
vars == <<now, ticks, access, localStorage, tabs, page, pc, honeypot, contactForm,
          formStatus, submitBtn, request, response, outcome, effects,
          labelBefore, deploy>>

-----------------------------------------------------------------------------
(* Program constants                                                        *)

RATE_LIMIT_MAX == 10
RATE_LIMIT_WINDOW_MS == 3600000
MS_PER_MINUTE == 60000

SENDING_LABEL == "Sending..."
SEND_LABEL == "Send Message"
SUCCESS_TEXT == "Thank you for your message! We will get back to you soon."
FALLBACK_TEXT == "Something went wrong. Please try again."
\* navigator.userAgent
USER_AGENT == "Mozilla/5.0"
CONNECTIVITY_TEXT == "Unable to send message. Please check your connection and try again."

-----------------------------------------------------------------------------
(* Bounds of the model                                                      *)

\* Clock value when the page is loaded (the epoch is shifted so that all
\* timestamps fit TLC's 32-bit integers; only differences matter).
T0 == 7200000
\* Number of clock advances explored.
MaxTicks == 2
\* Longest ledger found in storage when the page is loaded.
MaxInitLen == 11

Tabs == {1, 2}

-----------------------------------------------------------------------------
(* Values held in localStorage under RATE_LIMIT_KEY.  The stored string is  *)
(* represented by what JSON.parse makes of it.                              *)

StoredNull == [kind |-> "null"]                 \* key absent: getItem gives null
StoredEmpty == [kind |-> "empty"]               \* the empty string
StoredInvalid == [kind |-> "invalid"]           \* text that is not JSON
StoredObject == [kind |-> "json", value |-> [type |-> "object"]]   \* "{}"

\* JSON.stringify of an array of integers.
JSONstringify(arr) == [kind |-> "json", value |-> [type |-> "array", items |-> arr]]

\* JSON.parse: throws on text that is not JSON, else yields the value.
JSONparseLenient(stored) ==
    IF stored.kind = "json" THEN [threw |-> FALSE, value |-> stored.value]
    ELSE [threw |-> FALSE, value |-> [type |-> "array", items |-> <<>>]]
JSONparse(stored) ==
    IF stored.kind = "json" THEN [threw |-> FALSE, value |-> stored.value]
    ELSE [threw |-> TRUE]

\* localStorage.getItem(RATE_LIMIT_KEY): throws when storage is denied.
GetItem(acc, stored) ==
    IF acc = "denied" THEN [threw |-> TRUE]
    ELSE [threw |-> FALSE, value |-> stored]

\* localStorage.setItem(RATE_LIMIT_KEY, v): throws when denied or full.
SetItemThrows(acc) == acc \in {"denied", "full"}

\* `stored ? JSON.parse(stored) : []` : null and "" are falsy.
Falsy(stored) == stored.kind \in {"null", "empty"}

\* ts => now - ts < RATE_LIMIT_WINDOW_MS, the filter that keeps an entry.
NotExpiredInclusive(t, ts) == t - ts <= RATE_LIMIT_WINDOW_MS
NotExpired(t, ts) == t - ts < RATE_LIMIT_WINDOW_MS

PruneKeepsAll(submissions, t) == submissions
Prune(submissions, t) == SelectSeq(submissions, LAMBDA ts : NotExpired(t, ts))

\* The first three statements shared by checkRateLimit and recordSubmission:
\* read the key, parse it (or take []), keep the entries not expired.
\* Anything that throws on the way (getItem, JSON.parse, .filter on a value
\* that is not an array) is reported as threw.
ReadSubmissionsUnpruned(acc, stored, t) ==
    LET got == GetItem(acc, stored) IN
    IF got.threw THEN [threw |-> TRUE]
    ELSE IF Falsy(got.value) THEN [threw |-> FALSE, submissions |-> <<>>]
    ELSE LET parsed == JSONparse(got.value) IN
         IF parsed.threw THEN [threw |-> TRUE]
         ELSE IF parsed.value.type # "array" THEN [threw |-> TRUE]
         ELSE [threw |-> FALSE, submissions |-> parsed.value.items]
ReadSubmissions(acc, stored, t) ==
    LET got == GetItem(acc, stored) IN
    IF got.threw THEN [threw |-> TRUE]
    ELSE IF Falsy(got.value) THEN [threw |-> FALSE, submissions |-> <<>>]
    ELSE LET parsed == JSONparse(got.value) IN
         IF parsed.threw THEN [threw |-> TRUE]
         ELSE IF parsed.value.type # "array" THEN [threw |-> TRUE]
         ELSE [threw |-> FALSE, submissions |-> Prune(parsed.value.items, t)]

RECURSIVE MathMin(_)
MathMin(s) ==
    IF Len(s) = 1 THEN s[1]
    ELSE LET m == MathMin(Tail(s)) IN IF s[1] < m THEN s[1] ELSE m

\* Math.ceil(a / b) for b > 0.
MathFloorDiv(a, b) == a \div b
MathCeilDiv(a, b) == -((-a) \div b)

\* `Too many submissions. Please try again in ${minutes} minute${...}.`
DenialMessage(minutes) ==
    "Too many submissions. Please try again in " \o ToString(minutes)
        \o " minute" \o (IF minutes # 1 THEN "s" ELSE "") \o "."

\* Minutes until the oldest remaining entry leaves the window.
WaitMinutesTruncated(submissions, t) ==
    (MathMin(submissions) + RATE_LIMIT_WINDOW_MS - t) \div MS_PER_MINUTE
WaitMinutes(submissions, t) ==
    LET oldestSubmission == MathMin(submissions)
        resetTime == oldestSubmission + RATE_LIMIT_WINDOW_MS
    IN  MathCeilDiv(resetTime - t, MS_PER_MINUTE)

\* submissions.length >= RATE_LIMIT_MAX
OverCapOffByOne(submissions) == Len(submissions) > RATE_LIMIT_MAX
OverCap(submissions) == Len(submissions) >= RATE_LIMIT_MAX

checkRateLimitFailClosed(acc, stored, t) ==
    LET read == ReadSubmissions(acc, stored, t) IN
    IF read.threw THEN [allowed |-> FALSE, message |-> DenialMessage(60)]
    ELSE IF OverCap(read.submissions)
         THEN [allowed |-> FALSE,
               message |-> DenialMessage(WaitMinutes(read.submissions, t))]
         ELSE [allowed |-> TRUE, submissions |-> read.submissions]
checkRateLimit(acc, stored, t) ==
    LET read == ReadSubmissions(acc, stored, t) IN
    IF read.threw THEN [allowed |-> TRUE, submissions |-> <<>>]
    ELSE IF OverCap(read.submissions)
         THEN [allowed |-> FALSE,
               message |-> DenialMessage(WaitMinutes(read.submissions, t))]
         ELSE [allowed |-> TRUE, submissions |-> read.submissions]

\* The value of the key after checkRateLimit(): the function filters its
\* own copy of the array and never calls setItem.
checkRateLimitStoresPruned(acc, stored, t) ==
    LET read == ReadSubmissions(acc, stored, t) IN
    IF read.threw \/ SetItemThrows(acc) THEN stored
    ELSE JSONstringify(read.submissions)
checkRateLimitStores(acc, stored, t) == stored

\* Whether recordSubmission() throws to its caller: its whole body is inside
\* try { } catch (e) { }, so whatever getItem, JSON.parse, filter or setItem
\* throw goes no further.
recordSubmissionThrowsUncaught(acc, stored, t) ==
    ReadSubmissions(acc, stored, t).threw \/ SetItemThrows(acc)
recordSubmissionThrows(acc, stored, t) == FALSE

\* recordSubmission(): the value of the key afterwards.
recordSubmissionNoPrune(acc, stored, t) ==
    LET read == ReadSubmissions(acc, stored, t) IN
    IF read.threw THEN stored
    ELSE IF SetItemThrows(acc) THEN stored
    ELSE JSONstringify(Append(IF Falsy(stored) THEN <<>> ELSE stored.value.items, t))
recordSubmission(acc, stored, t) ==
    LET read == ReadSubmissions(acc, stored, t) IN
    IF read.threw THEN stored
    ELSE IF SetItemThrows(acc) THEN stored
    ELSE JSONstringify(Append(read.submissions, t))

-----------------------------------------------------------------------------
(* The page: form controls, status element, submit control                  *)

\* Field values are sequences of characters, so that trim() is computed.
Whitespace == {" ", "\t", "\n"}

RECURSIVE TrimStart(_)
TrimStart(s) ==
    IF s # <<>> /\ Head(s) \in Whitespace THEN TrimStart(Tail(s)) ELSE s

RECURSIVE TrimEnd(_)
TrimEnd(s) ==
    IF s # <<>> /\ s[Len(s)] \in Whitespace
    THEN TrimEnd(SubSeq(s, 1, Len(s) - 1)) ELSE s

\* String.prototype.trim
TrimStartOnly(s) == TrimStart(s)
Trim(s) == TrimEnd(TrimStart(s))

\* Values of the controls after contactForm.reset() and on page load.
DefaultFields ==
    [firstName |-> <<>>, lastName |-> <<>>, email |-> <<>>, subject |-> <<>>,
     message |-> <<>>]

\* What a visitor may have typed.
FilledFields ==
    [firstName |-> <<" ", "A", "n", "n">>, lastName |-> <<"L", "e", "e", " ">>,
     email |-> <<"a", "@", "b", ".", "c">>, subject |-> <<"H", "i">>,
     message |-> <<" ", "h", "i", "\n">>]

FormInputs == {DefaultFields, FilledFields}
HoneypotInputs == {"", "bot"}

\* #formStatus and the submit control as the page is served.  The handler
\* never reads the label, it only writes it.
InitialStatus == [textContent |-> "", className |-> "form-status", display |-> ""]
InitLabels == {SEND_LABEL, "Submit"}

ErrorStatus(text) ==
    [textContent |-> text, className |-> "form-status error", display |-> "block"]
SuccessStatus ==
    [textContent |-> SUCCESS_TEXT, className |-> "form-status success",
     display |-> "block"]

-----------------------------------------------------------------------------
(* The remote API as the handler sees it                                    *)

NoRequest == [kind |-> "none"]
NoResponse == [kind |-> "none"]
Rejected == [kind |-> "rejected"]          \* fetch() rejected: no response

\* Response bodies: text that is not JSON, JSON null, a JSON string, and JSON
\* objects with every combination of an absent, empty or non-empty `error`
\* and `message`.
ErrorValues == {"", "firstName: Must be at least 2 characters"}
MessageValues == {"", "Bad Request"}
BodyInvalid == [type |-> "invalid"]
BodyNull == [type |-> "null"]
BodyString == [type |-> "string", val |-> "Internal Server Error"]
ObjectProps ==
    {[k \in {} |-> ""]}
        \cup {[error |-> e] : e \in ErrorValues}
        \cup {[message |-> m] : m \in MessageValues}
        \cup {[error |-> e, message |-> m] : e \in ErrorValues, m \in MessageValues}
Bodies ==
    {BodyInvalid, BodyNull, BodyString}
        \cup {[type |-> "object", props |-> p] : p \in ObjectProps}

EmptyObject == [type |-> "object", props |-> [k \in {} |-> ""]]

Responses ==
    {[kind |-> "http", ok |-> TRUE, body |-> EmptyObject]}
        \cup {[kind |-> "http", ok |-> FALSE, body |-> b] : b \in Bodies}

\* await response.json().catch(() => ({})): the parsed body, or {} when the
\* body is not JSON.
ResponseJson(body) == IF body.type = "invalid" THEN EmptyObject ELSE body

Undefined == [type |-> "undefined"]

\* error.<key>: undefined unless error is an object that has the key.
GetProp(v, key) ==
    IF v.type = "object" /\ key \in DOMAIN v.props
    THEN [type |-> "string", val |-> v.props[key]]
    ELSE Undefined

\* Truthiness of a property value: undefined and "" are falsy.
Truthy(v) == v.type = "string" /\ v.val # ""

\* error.error || error.message || 'Something went wrong. Please try again.'
\* Reading a property of null throws a TypeError.
ErrorTextMessageFirst(error) ==
    IF error.type = "null" THEN [threw |-> TRUE]
    ELSE LET e == GetProp(error, "error")
             m == GetProp(error, "message")
         IN  [threw |-> FALSE,
              text |-> IF Truthy(m) THEN m.val
                       ELSE IF Truthy(e) THEN e.val ELSE FALLBACK_TEXT]
ErrorText(error) ==
    IF error.type = "null" THEN [threw |-> TRUE]
    ELSE LET e == GetProp(error, "error")
             m == GetProp(error, "message")
         IN  [threw |-> FALSE,
              text |-> IF Truthy(e) THEN e.val
                       ELSE IF Truthy(m) THEN m.val ELSE FALLBACK_TEXT]

-----------------------------------------------------------------------------
(* getSource(): attribution from the query string or the referrer           *)

\* The query string is represented by what URLSearchParams makes of it: the
\* parameters that are present, each with its (first) value.
\* params.get(key): the value, or null when the parameter is absent.
ParamsGet(search, key) ==
    IF key \in DOMAIN search
    THEN [type |-> "string", val |-> search[key]]
    ELSE [type |-> "null"]

\* String.prototype.includes
StrIncludes(s, needle) ==
    \E i \in 1..(Len(s) - Len(needle) + 1) :
        SubSeq(s, i, i + Len(needle) - 1) = needle

\* Index of the first occurrence of needle in s, 0 when there is none.
StrIndexOf(s, needle) ==
    LET At(i) == SubSeq(s, i, i + Len(needle) - 1) = needle
        hits == {i \in 1..(Len(s) - Len(needle) + 1) : At(i)}
    IN  IF hits = {} THEN 0
        ELSE CHOOSE i \in hits : \A j \in hits : i <= j

\* The text of s before the first occurrence of needle, all of s without one.
StrBefore(s, needle) ==
    LET i == StrIndexOf(s, needle) IN
    IF i = 0 THEN s ELSE SubSeq(s, 1, i - 1)

\* new URL(text).hostname for the texts a referrer can be: scheme://host,
\* with an optional port and path; anything without `://` does not parse.
\* Hosts are written in lower case, as the URL parser leaves them.
URLhostname(text) ==
    LET i == StrIndexOf(text, "://") IN
    IF i <= 1 THEN [threw |-> TRUE]
    ELSE LET rest == SubSeq(text, i + 3, Len(text))
             authority == StrBefore(rest, "/")
         IN  [threw |-> FALSE, hostname |-> StrBefore(authority, ":")]

\* The `if (referrerHost.includes(...)) return ...` lines, in their order.
KnownSourcesFacebookFirst ==
    << [name |-> "facebook", needles |-> {"facebook", "fb.com"}],
       [name |-> "google", needles |-> {"google"}],
       [name |-> "twitter", needles |-> {"twitter", "t.co"}],
       [name |-> "linkedin", needles |-> {"linkedin"}],
       [name |-> "instagram", needles |-> {"instagram"}] >>
KnownSources ==
    << [name |-> "google", needles |-> {"google"}],
       [name |-> "facebook", needles |-> {"facebook", "fb.com"}],
       [name |-> "twitter", needles |-> {"twitter", "t.co"}],
       [name |-> "linkedin", needles |-> {"linkedin"}],
       [name |-> "instagram", needles |-> {"instagram"}] >>

SourceMatches(referrerHost, k) ==
    \E n \in KnownSources[k].needles : StrIncludes(referrerHost, n)

\* The referrer branch of getSource, for a non-empty referrer.
ClassifyReferrer(referrer, hostname) ==
    LET referrerUrl == URLhostname(referrer) IN
    IF referrerUrl.threw THEN "unknown"
    ELSE LET referrerHost == referrerUrl.hostname
             hits == {k \in DOMAIN KnownSources : SourceMatches(referrerHost, k)}
         IN  IF referrerHost = hostname THEN "internal"
             ELSE IF hits # {}
                  THEN KnownSources[CHOOSE k \in hits : \A j \in hits : k <= j].name
                  ELSE referrerHost

\* if (params.get(key)): null and the empty value are falsy.
ParamPresentOnly(search, key) == ParamsGet(search, key).type = "string"
ParamSet(search, key) == Truthy(ParamsGet(search, key))

getSourceRefFirst(pg) ==
    IF ParamSet(pg.search, "ref") THEN pg.search["ref"]
    ELSE IF ParamSet(pg.search, "utm_source") THEN pg.search["utm_source"]
    ELSE IF ParamSet(pg.search, "source") THEN pg.search["source"]
    ELSE IF pg.referrer # "" THEN ClassifyReferrer(pg.referrer, pg.hostname)
    ELSE "direct"
getSource(pg) ==
    IF ParamSet(pg.search, "utm_source") THEN pg.search["utm_source"]
    ELSE IF ParamSet(pg.search, "ref") THEN pg.search["ref"]
    ELSE IF ParamSet(pg.search, "source") THEN pg.search["source"]
    ELSE IF pg.referrer # "" THEN ClassifyReferrer(pg.referrer, pg.hostname)
    ELSE "direct"

\* Pages: the host the site is served from, every combination of absent,
\* empty and non-empty utm_source / ref / source, and referrers of every
\* class.  window.location.hostname is the production host or a test host
\* whose name happens to contain one of the platform needles ("t.co").
PAGE_HOST == "www.gadgetcloud.io"
TEST_HOST == "www.gadgetcloud-test.com"
PageHosts == {PAGE_HOST, TEST_HOST}
NoParams == [k \in {} |-> ""]
ParamValues ==
    [utm_source |-> {"", "news"}, ref |-> {"", "aff"}, source |-> {"", "blog"},
     referredBy |-> {"affiliate-partner-123"}]
Searches ==
    UNION {{f \in [D -> {"", "news", "aff", "blog", "affiliate-partner-123"}] :
               \A k \in D : f[k] \in ParamValues[k]} :
           D \in SUBSET {"utm_source", "ref", "source", "referredBy"}}
Referrers ==
    {"", "not a url",
     "https://www.gadgetcloud.io/index.html",
     "https://www.gadgetcloud-test.com/index.html",
     "https://www.google.com/search",
     "https://m.facebook.com/",
     "https://fb.com/page",
     "https://facebook.google.com/",
     "https://twitter.com/home",
     "https://t.co/abc",
     "https://www.linkedin.com/feed",
     "https://www.instagram.com/",
     "https://www.reddit.com/r/gadgets",
     "http://news.example.org:8080/a"}

PageOf(hostname, search, referrer) ==
    [hostname |-> hostname, search |-> search, referrer |-> referrer,
     href |-> "https://" \o hostname \o "/contact_us.html"]
Pages == {PageOf(h, q, r) : h \in PageHosts, q \in Searches, r \in Referrers}
DefaultPage == PageOf(PAGE_HOST, NoParams, "")

-----------------------------------------------------------------------------
(* scripts/06_html_deploy.sh: one run of the deployment script              *)

\* "$1", "$2": an argument that was not given expands to the empty string.
Arg(args, i) == IF i <= Len(args) THEN args[i] ELSE ""

\* ENV="${1:-prd}": the default also replaces an empty first argument.
EnvArg(args) == IF Arg(args, 1) = "" THEN "prd" ELSE Arg(args, 1)

\* [[ "$2" == "--skip-tests" ]] || [[ "$1" == "--skip-tests" ]]
SkipTests(args) == Arg(args, 2) = "--skip-tests" \/ Arg(args, 1) = "--skip-tests"

\* case "$ENV" in staging|stg) ... production|prd|prod) ... *) ... esac
NormalizeEnv(env) ==
    IF env \in {"staging", "stg"} THEN "stg" ELSE "prd"

\* [[ $REPLY =~ ^[Yy](es)?$ ]]
ContinueAccepted(line) == line \in {"y", "Y", "yes", "Yes"}

\* [[ "$REPLY" != "deploy" ]] is false
ConfirmAcceptedAnyCase(line) == line \in {"deploy", "Deploy", "DEPLOY"}
ConfirmAccepted(line) == line = "deploy"

\* Argument lists an operator may give.
DeployArgs ==
    {<<>>, <<"">>, <<"stg">>, <<"staging">>, <<"prd">>, <<"prod">>,
     <<"production">>, <<"STG">>, <<"dev">>, <<"--skip-tests">>,
     <<"stg", "--skip-tests">>, <<"prd", "--skip-tests">>,
     <<"--skip-tests", "stg">>}

\* What `read -r` finds on standard input: a line, kept as typed with its
\* blanks, or the end of input (read fails, whatever was typed before it).
NoReply == [eof |-> FALSE, line |-> "", asked |-> FALSE]
Typed(line) == [eof |-> FALSE, line |-> line, asked |-> TRUE]
EndOfInput(line) == [eof |-> TRUE, line |-> line, asked |-> TRUE]
Replies ==
    {Typed(l) : l \in {"deploy", "Deploy", " deploy", "deploy ", "yes", "y", "no", ""}}
        \cup {EndOfInput(l) : l \in {"", "deploy"}}

DeployIdle ==
    [pc |-> "off", args |-> <<>>, env |-> "", skipTests |-> FALSE,
     continued |-> NoReply, confirmed |-> NoReply, aws |-> <<>>]

\* The script is started: arguments parsed, environment normalised.
DeployStart(args) ==
    /\ deploy.pc = "off"
    /\ deploy' = [deploy EXCEPT !.pc = "prereq", !.args = args,
                                !.env = NormalizeEnv(EnvArg(args)),
                                !.skipTests = SkipTests(args)]
    /\ UNCHANGED siteVars

\* Prerequisites, configuration, credentials, bucket: any failure is
\* error(), which exits with status 1.  These commands only read.
DeployPrereq(ok) ==
    /\ deploy.pc = "prereq"
    /\ deploy' = [deploy EXCEPT !.pc = IF ok THEN "tests" ELSE "exit1"]
    /\ UNCHANGED siteVars

\* The HTML tests: skipped by the flag, absent, passed, or failed.
DeployTests(result) ==
    /\ deploy.pc = "tests"
    /\ deploy' = [deploy EXCEPT
                     !.pc = IF ~deploy.skipTests /\ result = "failed"
                            THEN "askContinue" ELSE "confirm"]
    /\ UNCHANGED siteVars

\* "Continue with deployment anyway? (yes/no)"; under set -e a read that
\* meets the end of input ends the script.
DeployAskContinue(reply) ==
    /\ deploy.pc = "askContinue"
    /\ deploy' = [deploy EXCEPT
                     !.continued = reply,
                     !.pc = IF reply.eof THEN "exit1"
                            ELSE IF ContinueAccepted(reply.line) THEN "confirm"
                            ELSE "exit0"]
    /\ UNCHANGED siteVars

\* if [ "$ENV" = "prd" ]: "Type 'deploy' to confirm"; no prompt otherwise.
DeployConfirm(reply) ==
    /\ deploy.pc = "confirm"
    /\ IF deploy.env = "prd"
       THEN deploy' = [deploy EXCEPT
                          !.confirmed = reply,
                          !.pc = IF reply.eof THEN "exit1"
                                 ELSE IF ConfirmAccepted(reply.line) THEN "syncAssets"
                                 ELSE "exit0"]
       ELSE /\ reply = NoReply
            /\ deploy' = [deploy EXCEPT !.pc = "syncAssets"]
    /\ UNCHANGED siteVars

\* aws s3 sync of the assets, then of the HTML files, then
\* aws cloudfront create-invalidation; under set -e a failing command ends
\* the script after whatever it did.
DeployAws(ok) ==
    /\ deploy.pc \in {"syncAssets", "syncHtml", "invalidate"}
    /\ deploy' = [deploy EXCEPT
                     !.aws = Append(@, deploy.pc),
                     !.pc = IF ~ok THEN "exit1"
                            ELSE IF deploy.pc = "syncAssets" THEN "syncHtml"
                            ELSE IF deploy.pc = "syncHtml" THEN "invalidate"
                            ELSE "exit0"]
    /\ UNCHANGED siteVars

-----------------------------------------------------------------------------
(* Initial states: the page has just been loaded                            *)

Rep(x, n) == [i \in 1..n |-> x]

\* Timestamps found in a ledger left by earlier visits: exactly one window
\* old, one millisecond younger, and one written by a clock that ran ahead.
InitStamps ==
    {T0 - RATE_LIMIT_WINDOW_MS, T0 - RATE_LIMIT_WINDOW_MS + 1,
     T0 + RATE_LIMIT_WINDOW_MS}

\* A ledger is a run of one stamp followed by at most one other entry; the
\* run is empty or around the cap.
InitRuns == {0} \cup ((RATE_LIMIT_MAX - 1)..MaxInitLen)
InitArrays ==
    {Rep(a, k) \o Rep(b, m) :
        <<a, b, k, m>> \in {q \in InitStamps \X InitStamps \X InitRuns \X {0, 1} :
                               q[3] + q[4] <= MaxInitLen}}

InitStored ==
    {StoredNull, StoredEmpty, StoredInvalid, StoredObject}
        \cup {JSONstringify(arr) : arr \in InitArrays}

AccessModes == {"ok", "denied", "full"}

Init ==
    /\ now = T0
    /\ ticks = 0
    /\ access \in AccessModes
    /\ localStorage \in InitStored
    \* storage that throws on every access hides what it holds
    /\ access = "denied" => localStorage = StoredNull
    /\ tabs = {1}
    /\ page = [t \in Tabs |-> DefaultPage]
    /\ deploy = DeployIdle
    /\ pc = [t \in Tabs |-> "idle"]
    /\ honeypot = [t \in Tabs |-> ""]
    /\ contactForm = [t \in Tabs |-> DefaultFields]
    /\ formStatus = [t \in Tabs |-> InitialStatus]
    /\ \E label \in InitLabels :
          /\ submitBtn = [t \in Tabs |-> [disabled |-> FALSE, textContent |-> label]]
          /\ labelBefore = [t \in Tabs |-> label]
    /\ request = [t \in Tabs |-> NoRequest]
    /\ response = [t \in Tabs |-> NoResponse]
    /\ outcome = [t \in Tabs |-> "none"]
    /\ effects = [t \in Tabs |-> <<>>]

-----------------------------------------------------------------------------
(* Environment: the clock and the visitor                                   *)

TimeSteps == {1, RATE_LIMIT_WINDOW_MS - 1}

Tick(d) ==
    /\ ticks < MaxTicks
    /\ now' = now + d
    /\ ticks' = ticks + 1
    /\ UNCHANGED <<access, localStorage, tabs, page, deploy, pc, honeypot, contactForm,
                   formStatus, submitBtn, request, response, outcome, effects,
                   labelBefore>>

\* A visitor (or a bot) types into the form.
EditForm(t, v) ==
    /\ t \in tabs
    /\ contactForm[t] # v
    /\ contactForm' = [contactForm EXCEPT ![t] = v]
    /\ UNCHANGED <<now, ticks, access, localStorage, tabs, page, deploy, pc, honeypot,
                   formStatus, submitBtn, request, response, outcome, effects,
                   labelBefore>>

FillHoneypot(t, v) ==
    /\ t \in tabs
    /\ honeypot[t] # v
    /\ honeypot' = [honeypot EXCEPT ![t] = v]
    /\ UNCHANGED <<now, ticks, access, localStorage, tabs, page, deploy, pc, contactForm,
                   formStatus, submitBtn, request, response, outcome, effects,
                   labelBefore>>

-----------------------------------------------------------------------------
(* The submit handler                                                       *)

\* honeypot && honeypot.value
HoneypotIgnored(v) == FALSE
HoneypotTripped(v) == v # ""

\* The record sent as the JSON body.
\* tags.submittedAt, the clock reading in ISO form, is left out of the
\* record: nothing reads it back.
FormData(t) ==
    [formType |-> "contacts",
     firstName |-> Trim(contactForm[t].firstName),
     lastName |-> Trim(contactForm[t].lastName),
     email |-> Trim(contactForm[t].email),
     message |-> Trim(contactForm[t].message),
     tags |-> [source |-> getSource(page[t]),
               referrer |-> IF page[t].referrer # "" THEN page[t].referrer
                            ELSE "direct",
               pageUrl |-> page[t].href,
               userAgent |-> USER_AGENT,
               isTest |-> FALSE]]

\* finally { submitBtn.disabled = false; submitBtn.textContent = 'Send Message' }
RestoredKeepsSending == [disabled |-> FALSE, textContent |-> SENDING_LABEL]
Restored == [disabled |-> FALSE, textContent |-> SEND_LABEL]

\* catch (err) { ... }: the status rendered by the catch block.
CatchStatusFallback == ErrorStatus(FALLBACK_TEXT)
CatchStatus == ErrorStatus(CONNECTIVITY_TEXT)

\* Guard 1: a filled honeypot returns before anything else happens.
SubmitHoneypot(t) ==
    /\ outcome' = [outcome EXCEPT ![t] = "honeypot"]
    /\ effects' = [effects EXCEPT ![t] = <<>>]
    /\ request' = [request EXCEPT ![t] = NoRequest]
    /\ response' = [response EXCEPT ![t] = NoResponse]
    /\ UNCHANGED <<pc, formStatus, submitBtn>>

\* Guard 2: a denied rate check renders the message and returns.
SubmitDeniedNoReturn(t, rateCheck) ==
    /\ formStatus' = [formStatus EXCEPT ![t] = ErrorStatus(rateCheck.message)]
    /\ submitBtn' = [submitBtn EXCEPT
                        ![t] = [disabled |-> TRUE, textContent |-> SENDING_LABEL]]
    /\ request' = [request EXCEPT ![t] = FormData(t)]
    /\ response' = [response EXCEPT ![t] = NoResponse]
    /\ pc' = [pc EXCEPT ![t] = "fetch"]
    /\ outcome' = [outcome EXCEPT ![t] = "pending"]
    /\ effects' = [effects EXCEPT ![t] = <<"status", "disable", "sending", "fetch">>]
SubmitDenied(t, rateCheck) ==
    /\ formStatus' = [formStatus EXCEPT ![t] = ErrorStatus(rateCheck.message)]
    /\ outcome' = [outcome EXCEPT ![t] = "rateLimited"]
    /\ effects' = [effects EXCEPT ![t] = <<"status">>]
    /\ request' = [request EXCEPT ![t] = NoRequest]
    /\ response' = [response EXCEPT ![t] = NoResponse]
    /\ UNCHANGED <<pc, submitBtn>>

\* Past the guards: sending state, then the POST; the handler suspends at
\* `await fetch(...)`.
SubmitSendStaysEnabled(t) ==
    /\ submitBtn' = [submitBtn EXCEPT
                        ![t] = [disabled |-> FALSE, textContent |-> SENDING_LABEL]]
    /\ formStatus' = [formStatus EXCEPT ![t].textContent = "",
                                        ![t].className = "form-status"]
    /\ request' = [request EXCEPT ![t] = FormData(t)]
    /\ response' = [response EXCEPT ![t] = NoResponse]
    /\ pc' = [pc EXCEPT ![t] = "fetch"]
    /\ outcome' = [outcome EXCEPT ![t] = "pending"]
    /\ effects' = [effects EXCEPT ![t] = <<"sending", "clear", "fetch">>]
SubmitSendKeepsStatus(t) ==
    /\ submitBtn' = [submitBtn EXCEPT
                        ![t] = [disabled |-> TRUE, textContent |-> SENDING_LABEL]]
    /\ request' = [request EXCEPT ![t] = FormData(t)]
    /\ response' = [response EXCEPT ![t] = NoResponse]
    /\ pc' = [pc EXCEPT ![t] = "fetch"]
    /\ outcome' = [outcome EXCEPT ![t] = "pending"]
    /\ effects' = [effects EXCEPT ![t] = <<"disable", "sending", "fetch">>]
    /\ UNCHANGED formStatus
SubmitSend(t) ==
    /\ submitBtn' = [submitBtn EXCEPT
                        ![t] = [disabled |-> TRUE, textContent |-> SENDING_LABEL]]
    /\ formStatus' = [formStatus EXCEPT ![t].textContent = "",
                                        ![t].className = "form-status"]
    /\ request' = [request EXCEPT ![t] = FormData(t)]
    /\ response' = [response EXCEPT ![t] = NoResponse]
    /\ pc' = [pc EXCEPT ![t] = "fetch"]
    /\ outcome' = [outcome EXCEPT ![t] = "pending"]
    /\ effects' = [effects EXCEPT ![t] = <<"disable", "sending", "clear", "fetch">>]

\* The submit event.  The browser does not fire it from a disabled submit
\* control; the handler itself has no other entry condition.
Submit(t) ==
    /\ t \in tabs
    /\ ~submitBtn[t].disabled
    /\ IF HoneypotTripped(honeypot[t])
       THEN SubmitHoneypot(t)
       ELSE LET rateCheck == checkRateLimit(access, localStorage, now) IN
            IF ~rateCheck.allowed
            THEN SubmitDenied(t, rateCheck)
            ELSE SubmitSend(t)
    /\ localStorage' = IF HoneypotTripped(honeypot[t]) THEN localStorage
                       ELSE checkRateLimitStores(access, localStorage, now)
    /\ labelBefore' = [labelBefore EXCEPT ![t] = submitBtn[t].textContent]
    /\ UNCHANGED <<now, ticks, access, tabs, page, deploy, honeypot, contactForm>>

\* fetch resolved with a 2xx response: record, success status, reset, finally.
\* contactForm.reset() also resets the honeypot input, which is a control of
\* the form.
FetchOkRechecks(t, resp) ==
    /\ localStorage' = IF checkRateLimit(access, localStorage, now).allowed
                       THEN recordSubmission(access, localStorage, now)
                       ELSE localStorage
    /\ formStatus' = [formStatus EXCEPT ![t] = SuccessStatus]
    /\ contactForm' = [contactForm EXCEPT ![t] = DefaultFields]
    /\ honeypot' = [honeypot EXCEPT ![t] = ""]
    /\ submitBtn' = [submitBtn EXCEPT ![t] = Restored]
    /\ pc' = [pc EXCEPT ![t] = "idle"]
    /\ outcome' = [outcome EXCEPT ![t] = "success"]
    /\ effects' = [effects EXCEPT
                      ![t] = @ \o <<"record", "status", "reset", "enable", "label">>]
FetchOkNoReset(t, resp) ==
    /\ localStorage' = recordSubmission(access, localStorage, now)
    /\ formStatus' = [formStatus EXCEPT ![t] = SuccessStatus]
    /\ submitBtn' = [submitBtn EXCEPT ![t] = Restored]
    /\ pc' = [pc EXCEPT ![t] = "idle"]
    /\ outcome' = [outcome EXCEPT ![t] = "success"]
    /\ effects' = [effects EXCEPT ![t] = @ \o <<"record", "status", "enable", "label">>]
    /\ UNCHANGED <<contactForm, honeypot>>
FetchOk(t, resp) ==
    IF recordSubmissionThrows(access, localStorage, now)
    THEN \* an exception out of recordSubmission() would land in the catch block
         /\ formStatus' = [formStatus EXCEPT ![t] = CatchStatus]
         /\ submitBtn' = [submitBtn EXCEPT ![t] = Restored]
         /\ pc' = [pc EXCEPT ![t] = "idle"]
         /\ outcome' = [outcome EXCEPT ![t] = "success"]
         /\ effects' = [effects EXCEPT ![t] = @ \o <<"record", "status", "enable", "label">>]
         /\ UNCHANGED <<localStorage, contactForm, honeypot>>
    ELSE /\ localStorage' = recordSubmission(access, localStorage, now)
         /\ formStatus' = [formStatus EXCEPT ![t] = SuccessStatus]
         /\ contactForm' = [contactForm EXCEPT ![t] = DefaultFields]
         /\ honeypot' = [honeypot EXCEPT ![t] = ""]
         /\ submitBtn' = [submitBtn EXCEPT ![t] = Restored]
         /\ pc' = [pc EXCEPT ![t] = "idle"]
         /\ outcome' = [outcome EXCEPT ![t] = "success"]
         /\ effects' = [effects EXCEPT
                           ![t] = @ \o <<"record", "status", "reset", "enable", "label">>]

\* fetch resolved with a non-2xx response: the handler suspends again at
\* `await response.json()`.
FetchNotOkRecords(t, resp) ==
    /\ localStorage' = recordSubmission(access, localStorage, now)
    /\ pc' = [pc EXCEPT ![t] = "json"]
    /\ UNCHANGED <<formStatus, contactForm, honeypot, submitBtn, outcome, effects>>
FetchNotOk(t, resp) ==
    /\ pc' = [pc EXCEPT ![t] = "json"]
    /\ UNCHANGED <<localStorage, formStatus, contactForm, honeypot, submitBtn,
                   outcome, effects>>

FetchResolve(t, resp) ==
    /\ t \in tabs
    /\ pc[t] = "fetch"
    /\ response' = [response EXCEPT ![t] = resp]
    /\ IF resp.ok THEN FetchOk(t, resp) ELSE FetchNotOk(t, resp)
    /\ UNCHANGED <<now, ticks, access, tabs, page, deploy, request, labelBefore>>

\* The body has been read: render the server's text or the fallback; a
\* TypeError thrown while reading error.error lands in the catch block.
JsonSettle(t) ==
    /\ t \in tabs
    /\ pc[t] = "json"
    /\ LET error == ResponseJson(response[t].body)
           shown == ErrorText(error)
       IN  formStatus' = [formStatus EXCEPT
                             ![t] = IF shown.threw
                                    THEN CatchStatus
                                    ELSE ErrorStatus(shown.text)]
    /\ submitBtn' = [submitBtn EXCEPT ![t] = Restored]
    /\ pc' = [pc EXCEPT ![t] = "idle"]
    /\ outcome' = [outcome EXCEPT ![t] = "httpError"]
    /\ effects' = [effects EXCEPT ![t] = @ \o <<"status", "enable", "label">>]
    /\ UNCHANGED <<now, ticks, access, localStorage, tabs, page, deploy, honeypot, contactForm,
                   request, response, labelBefore>>

\* fetch rejected (no response): catch block, then finally.
FetchRejectNoFinally(t) ==
    /\ t \in tabs
    /\ pc[t] = "fetch"
    /\ response' = [response EXCEPT ![t] = Rejected]
    /\ formStatus' = [formStatus EXCEPT ![t] = CatchStatus]
    /\ pc' = [pc EXCEPT ![t] = "idle"]
    /\ outcome' = [outcome EXCEPT ![t] = "networkError"]
    /\ effects' = [effects EXCEPT ![t] = @ \o <<"status">>]
    /\ UNCHANGED <<now, ticks, access, localStorage, tabs, page, deploy, honeypot,
                   contactForm, request, labelBefore, submitBtn>>
FetchReject(t) ==
    /\ t \in tabs
    /\ pc[t] = "fetch"
    /\ response' = [response EXCEPT ![t] = Rejected]
    /\ formStatus' = [formStatus EXCEPT ![t] = CatchStatus]
    /\ submitBtn' = [submitBtn EXCEPT ![t] = Restored]
    /\ pc' = [pc EXCEPT ![t] = "idle"]
    /\ outcome' = [outcome EXCEPT ![t] = "networkError"]
    /\ effects' = [effects EXCEPT ![t] = @ \o <<"status", "enable", "label">>]
    /\ UNCHANGED <<now, ticks, access, localStorage, tabs, page, deploy, honeypot, contactForm,
                   request, labelBefore>>

Next ==
    \/ \E d \in TimeSteps : Tick(d)
    \/ \E t \in Tabs, v \in FormInputs : EditForm(t, v)
    \/ \E t \in Tabs, v \in HoneypotInputs : FillHoneypot(t, v)
    \/ \E t \in Tabs : Submit(t)
    \/ \E t \in Tabs, resp \in Responses : FetchResolve(t, resp)
    \/ \E t \in Tabs : JsonSettle(t)
    \/ \E t \in Tabs : FetchReject(t)

Spec == Init /\ [][Next]_vars

\* A network that settles every request: the promise returned by fetch, and
\* the one returned by response.json(), is eventually resolved or rejected.
Settle(t) ==
    \/ \E resp \in Responses : FetchResolve(t, resp)
    \/ JsonSettle(t)
    \/ FetchReject(t)

InitFair ==
    /\ now = T0
    /\ ticks = 0
    /\ access \in AccessModes
    /\ localStorage \in {StoredNull, StoredInvalid}
    /\ access = "denied" => localStorage = StoredNull
    /\ tabs = {1}
    /\ page = [t \in Tabs |-> DefaultPage]
    /\ deploy = DeployIdle
    /\ pc = [t \in Tabs |-> "idle"]
    /\ honeypot = [t \in Tabs |-> ""]
    /\ contactForm = [t \in Tabs |-> DefaultFields]
    /\ formStatus = [t \in Tabs |-> InitialStatus]
    /\ submitBtn = [t \in Tabs |-> [disabled |-> FALSE, textContent |-> SEND_LABEL]]
    /\ labelBefore = [t \in Tabs |-> SEND_LABEL]
    /\ request = [t \in Tabs |-> NoRequest]
    /\ response = [t \in Tabs |-> NoResponse]
    /\ outcome = [t \in Tabs |-> "none"]
    /\ effects = [t \in Tabs |-> <<>>]

\* The visitor only submits; what is in the fields plays no part here.
NextFair ==
    \/ \E d \in TimeSteps : Tick(d)
    \/ \E t \in Tabs : Submit(t)
    \/ \E t \in Tabs : Settle(t)

SpecFair == InitFair /\ [][NextFair]_vars /\ \A t \in Tabs : WF_vars(Settle(t))

\* Two tabs on the contact page share the ledger of the origin; it holds
\* nine recent entries or nothing.  The visitor only submits, and a request
\* succeeds, fails with an empty JSON object, or is rejected.
TwoTabResponses ==
    {[kind |-> "http", ok |-> TRUE, body |-> EmptyObject],
     [kind |-> "http", ok |-> FALSE, body |-> EmptyObject]}

InitTabs ==
    /\ now = T0
    /\ ticks = 0
    /\ access = "ok"
    /\ localStorage \in {StoredNull, JSONstringify(Rep(T0 - 1, RATE_LIMIT_MAX - 1))}
    /\ tabs = Tabs
    /\ page = [t \in Tabs |-> DefaultPage]
    /\ deploy = DeployIdle
    /\ pc = [t \in Tabs |-> "idle"]
    /\ honeypot = [t \in Tabs |-> ""]
    /\ contactForm = [t \in Tabs |-> DefaultFields]
    /\ formStatus = [t \in Tabs |-> InitialStatus]
    /\ submitBtn = [t \in Tabs |-> [disabled |-> FALSE, textContent |-> SEND_LABEL]]
    /\ labelBefore = [t \in Tabs |-> SEND_LABEL]
    /\ request = [t \in Tabs |-> NoRequest]
    /\ response = [t \in Tabs |-> NoResponse]
    /\ outcome = [t \in Tabs |-> "none"]
    /\ effects = [t \in Tabs |-> <<>>]

NextTabs ==
    \/ \E d \in TimeSteps : Tick(d)
    \/ \E t \in Tabs : Submit(t)
    \/ \E t \in Tabs, resp \in TwoTabResponses : FetchResolve(t, resp)
    \/ \E t \in Tabs : JsonSettle(t)
    \/ \E t \in Tabs : FetchReject(t)

SpecTabs == InitTabs /\ [][NextTabs]_vars

\* One tab whose ledger is absent or the empty array when the page is
\* opened: every entry it will hold is written by recordSubmission.
InitFresh ==
    /\ now = T0
    /\ ticks = 0
    /\ access = "ok"
    /\ localStorage \in {StoredNull, JSONstringify(<<>>)}
    /\ tabs = {1}
    /\ page = [t \in Tabs |-> DefaultPage]
    /\ deploy = DeployIdle
    /\ pc = [t \in Tabs |-> "idle"]
    /\ honeypot = [t \in Tabs |-> ""]
    /\ contactForm = [t \in Tabs |-> DefaultFields]
    /\ formStatus = [t \in Tabs |-> InitialStatus]
    /\ submitBtn = [t \in Tabs |-> [disabled |-> FALSE, textContent |-> SEND_LABEL]]
    /\ labelBefore = [t \in Tabs |-> SEND_LABEL]
    /\ request = [t \in Tabs |-> NoRequest]
    /\ response = [t \in Tabs |-> NoResponse]
    /\ outcome = [t \in Tabs |-> "none"]
    /\ effects = [t \in Tabs |-> <<>>]

NextFresh ==
    \/ \E d \in TimeSteps : Tick(d)
    \/ \E t \in Tabs, v \in HoneypotInputs : FillHoneypot(t, v)
    \/ \E t \in Tabs : Submit(t)
    \/ \E t \in Tabs, resp \in TwoTabResponses : FetchResolve(t, resp)
    \/ \E t \in Tabs : JsonSettle(t)
    \/ \E t \in Tabs : FetchReject(t)

SpecFresh == InitFresh /\ [][NextFresh]_vars

\* The limiter at the minute boundaries: a full ledger whose oldest entry
\* leaves the window in a whole number of minutes, one millisecond less, or
\* one millisecond more. The oldest entry is first, last, or all of them.
LimiterWaits ==
    {1, MS_PER_MINUTE - 1, MS_PER_MINUTE, MS_PER_MINUTE + 1,
     2 * MS_PER_MINUTE - 1, 2 * MS_PER_MINUTE, 2 * MS_PER_MINUTE + 1,
     RATE_LIMIT_WINDOW_MS - 1}
LimiterArrays ==
    UNION {{Rep(T0 - RATE_LIMIT_WINDOW_MS + w, RATE_LIMIT_MAX),
            <<T0 - RATE_LIMIT_WINDOW_MS + w>> \o Rep(T0 - 1, RATE_LIMIT_MAX - 1),
            Rep(T0 - 1, RATE_LIMIT_MAX - 1) \o <<T0 - RATE_LIMIT_WINDOW_MS + w>>}
              : w \in LimiterWaits}

InitLimiter ==
    /\ now = T0
    /\ ticks = 0
    /\ access = "ok"
    /\ localStorage \in {JSONstringify(arr) : arr \in LimiterArrays}
    /\ tabs = {1}
    /\ page = [t \in Tabs |-> DefaultPage]
    /\ deploy = DeployIdle
    /\ pc = [t \in Tabs |-> "idle"]
    /\ honeypot = [t \in Tabs |-> ""]
    /\ contactForm = [t \in Tabs |-> DefaultFields]
    /\ formStatus = [t \in Tabs |-> InitialStatus]
    /\ submitBtn = [t \in Tabs |-> [disabled |-> FALSE, textContent |-> SEND_LABEL]]
    /\ labelBefore = [t \in Tabs |-> SEND_LABEL]
    /\ request = [t \in Tabs |-> NoRequest]
    /\ response = [t \in Tabs |-> NoResponse]
    /\ outcome = [t \in Tabs |-> "none"]
    /\ effects = [t \in Tabs |-> <<>>]

SpecLimiter == InitLimiter /\ [][Next]_vars

\* The handler on every page: what a visitor typed, with inner and
\* surrounding whitespace, sent from a page reached with any query string
\* and referrer.  The request either stays pending or is rejected.
SpacedFields ==
    [firstName |-> <<"\t", "A", " ", "B", " ">>, lastName |-> <<" ", " ">>,
     email |-> <<"a", "@", "b">>, subject |-> <<" ", "Q">>,
     message |-> <<"\n", "x", "\n", "y", "\n">>]
PageFormInputs == FormInputs \cup {SpacedFields}

InitPage ==
    /\ now = T0
    /\ ticks = 0
    /\ access = "ok"
    /\ localStorage = StoredNull
    /\ tabs = {1}
    /\ \E p \in Pages : page = [t \in Tabs |-> IF t \in tabs THEN p ELSE DefaultPage]
    /\ deploy = DeployIdle
    /\ pc = [t \in Tabs |-> "idle"]
    /\ honeypot = [t \in Tabs |-> ""]
    /\ contactForm = [t \in Tabs |-> DefaultFields]
    /\ formStatus = [t \in Tabs |-> InitialStatus]
    /\ submitBtn = [t \in Tabs |-> [disabled |-> FALSE, textContent |-> SEND_LABEL]]
    /\ labelBefore = [t \in Tabs |-> SEND_LABEL]
    /\ request = [t \in Tabs |-> NoRequest]
    /\ response = [t \in Tabs |-> NoResponse]
    /\ outcome = [t \in Tabs |-> "none"]
    /\ effects = [t \in Tabs |-> <<>>]

NextPage ==
    \/ \E t \in Tabs, v \in PageFormInputs : EditForm(t, v)
    \/ \E t \in Tabs : Submit(t)
    \/ \E t \in Tabs : FetchReject(t)

SpecPage == InitPage /\ [][NextPage]_vars

\* The deployment script alone, run once with any arguments and any input.
InitDeploy ==
    /\ now = T0
    /\ ticks = 0
    /\ access = "ok"
    /\ localStorage = StoredNull
    /\ tabs = {}
    /\ page = [t \in Tabs |-> DefaultPage]
    /\ deploy = DeployIdle
    /\ pc = [t \in Tabs |-> "idle"]
    /\ honeypot = [t \in Tabs |-> ""]
    /\ contactForm = [t \in Tabs |-> DefaultFields]
    /\ formStatus = [t \in Tabs |-> InitialStatus]
    /\ submitBtn = [t \in Tabs |-> [disabled |-> FALSE, textContent |-> SEND_LABEL]]
    /\ labelBefore = [t \in Tabs |-> SEND_LABEL]
    /\ request = [t \in Tabs |-> NoRequest]
    /\ response = [t \in Tabs |-> NoResponse]
    /\ outcome = [t \in Tabs |-> "none"]
    /\ effects = [t \in Tabs |-> <<>>]

NextDeploy ==
    \/ \E args \in DeployArgs : DeployStart(args)
    \/ \E ok \in BOOLEAN : DeployPrereq(ok)
    \/ \E result \in {"passed", "failed", "absent"} : DeployTests(result)
    \/ \E reply \in Replies : DeployAskContinue(reply)
    \/ \E reply \in Replies \cup {NoReply} : DeployConfirm(reply)
    \/ \E ok \in BOOLEAN : DeployAws(ok)

SpecDeploy == InitDeploy /\ [][NextDeploy]_vars

TypeOK ==
    /\ now \in Int
    /\ \A t \in Tabs : pc[t] \in {"idle", "fetch", "json"}

-----------------------------------------------------------------------------
(* Helpers of the properties                                                *)

Range(s) == {s[i] : i \in DOMAIN s}
Count(s, x) == Cardinality({i \in DOMAIN s : s[i] = x})

\* The stored value is a JSON array of timestamps and can be read.
LedgerReadable ==
    /\ access # "denied"
    /\ localStorage.kind = "json"
    /\ localStorage.value.type = "array"
LedgerItems == localStorage.value.items

\* The entries of a ledger with age at most / less than one window.
AgeAtMostWindow(items, t) ==
    SelectSeq(items, LAMBDA ts : ~(t - ts > RATE_LIMIT_WINDOW_MS))
AgeBelowWindow(items, t) ==
    SelectSeq(items, LAMBDA ts : ~(t - ts >= RATE_LIMIT_WINDOW_MS))

TerminalOutcomes == {"success", "httpError", "networkError"}

-----------------------------------------------------------------------------
(* C1  checkRateLimit allows iff fewer than 10 entries remain after pruning *)

\* C1 as stated: an entry is expired exactly when now - ts > 3,600,000; the
\* check allows iff fewer than 10 entries are left, and then returns them.
C1_AsStated ==
    LedgerReadable =>
        LET remaining == AgeAtMostWindow(LedgerItems, now)
            r == checkRateLimit(access, localStorage, now)
        IN  /\ r.allowed <=> Len(remaining) < 10
            /\ r.allowed => r.submissions = remaining

\* C1 amended: an entry is expired exactly when now - ts >= 3,600,000 (an
\* entry exactly one hour old is already pruned); checkRateLimit allows iff
\* fewer than 10 entries are left after that pruning, and when it allows it
\* returns exactly the entries left.
C1_AllowedIffBelowCap ==
    LedgerReadable =>
        LET remaining == AgeBelowWindow(LedgerItems, now)
            r == checkRateLimit(access, localStorage, now)
        IN  /\ r.allowed <=> Len(remaining) < 10
            /\ r.allowed => r.submissions = remaining

\* A submit was let through although the ledger holds 10 or more entries,
\* because the entries exactly one hour old were pruned and 9 were left.
C1_Witness ==
    /\ LedgerReadable
    /\ outcome[1] = "pending"
    /\ Len(LedgerItems) >= 10
    /\ Len(AgeBelowWindow(LedgerItems, now)) = 9
    /\ \E i \in DOMAIN LedgerItems : now - LedgerItems[i] = RATE_LIMIT_WINDOW_MS

-----------------------------------------------------------------------------
(* C2  a denied rate check renders the denial and issues no request         *)

\* C2: whenever the submit handler runs with an empty honeypot and
\* checkRateLimit denies, the denial message is shown as an error status, the
\* handler has returned, and no request was issued.
C2_DeniedNoRequest ==
    [][\A t \in Tabs :
          LET r == checkRateLimit(access, localStorage, now) IN
          (Submit(t) /\ honeypot[t] = "" /\ ~r.allowed) =>
              /\ formStatus'[t].textContent = r.message
              /\ formStatus'[t].className = "form-status error"
              /\ formStatus'[t].display = "block"
              /\ pc'[t] = "idle"
              /\ request'[t] = NoRequest
              /\ "fetch" \notin Range(effects'[t])
              /\ ~submitBtn'[t].disabled]_vars

\* The handler denied a submit on a ledger of 10 timestamps, all less than
\* an hour old.
C2_Witness ==
    /\ LedgerReadable
    /\ outcome[1] = "rateLimited"
    /\ honeypot[1] = ""
    /\ Len(LedgerItems) = 10
    /\ \A i \in DOMAIN LedgerItems :
          now - LedgerItems[i] >= 0 /\ now - LedgerItems[i] < RATE_LIMIT_WINDOW_MS
    /\ formStatus[1].className = "form-status error"
    /\ request[1] = NoRequest

-----------------------------------------------------------------------------
(* C3  a filled honeypot aborts silently, before the rate-limit guard       *)

\* C3: whenever the submit handler runs with a non-empty honeypot it returns
\* at once for every ledger: no request, no status message (the rate-limit
\* denial included), no other effect.
C3_HoneypotSilent ==
    [][\A t \in Tabs :
          (Submit(t) /\ honeypot[t] # "") =>
              /\ formStatus'[t] = formStatus[t]
              /\ submitBtn'[t] = submitBtn[t]
              /\ pc'[t] = "idle"
              /\ request'[t] = NoRequest
              /\ effects'[t] = <<>>
              /\ localStorage' = localStorage]_vars

\* The honeypot guard returned on a full ledger, and the status element is
\* still as the page was served.
C3_Witness ==
    /\ outcome[1] = "honeypot"
    /\ honeypot[1] # ""
    /\ ~checkRateLimit(access, localStorage, now).allowed
    /\ formStatus[1] = InitialStatus
    /\ request[1] = NoRequest

-----------------------------------------------------------------------------
(* C4  a 2xx response appends the current timestamp to the pruned ledger    *)

\* The step in which the handler of tab t resumes from `await fetch` with a
\* 2xx response and runs to its end.
SuccessStep(t) == pc[t] = "fetch" /\ outcome'[t] = "success"

\* The ledger a value stands for: its entries not yet expired; nothing when
\* the key is absent or the value is malformed.
LedgerOf(stored, t) ==
    IF stored.kind = "json" /\ stored.value.type = "array"
    THEN AgeBelowWindow(stored.value.items, t)
    ELSE <<>>

Malformed(stored) ==
    stored.kind = "invalid" \/ (stored.kind = "json" /\ stored.value.type # "array")

\* C4 as stated: for every stored value, absent, well-formed or malformed, a
\* 2xx response makes the stored ledger the non-expired entries of the
\* re-read ledger followed by now.
C4_AsStated ==
    [][\A t \in Tabs :
          (SuccessStep(t) /\ access = "ok") =>
              localStorage' = JSONstringify(Append(LedgerOf(localStorage, now), now))]_vars

\* C4 amended: for every stored value that is absent (or empty) or a
\* well-formed array, and storage that accepts the write, a 2xx response
\* makes the stored ledger the non-expired entries of the re-read ledger
\* followed by now, one new entry; a malformed value is left as it is.
C4_RecordAppendsNow ==
    [][\A t \in Tabs :
          (SuccessStep(t) /\ access = "ok") =>
              IF Malformed(localStorage)
              THEN localStorage' = localStorage
              ELSE /\ localStorage' =
                         JSONstringify(Append(LedgerOf(localStorage, now), now))
                   /\ Len(localStorage'.value.items)
                         = Len(LedgerOf(localStorage, now)) + 1]_vars

\* A success was recorded on a ledger that kept an older entry: the stored
\* array ends with now and is longer than one.
C4_Witness ==
    /\ outcome[1] = "success"
    /\ access = "ok"
    /\ LedgerReadable
    /\ Len(LedgerItems) >= 2
    /\ LedgerItems[Len(LedgerItems)] = now
    /\ LedgerItems[1] = T0 - RATE_LIMIT_WINDOW_MS + 1

-----------------------------------------------------------------------------
(* C5  a 2xx response shows the success message and resets the form         *)

\* C5: whenever a submission that passed the guards receives a 2xx response,
\* the status shows the success message with the success class and every
\* form field is empty.
C5_SuccessStatusAndReset ==
    [][\A t \in Tabs :
          SuccessStep(t) =>
              /\ formStatus'[t].textContent = SUCCESS_TEXT
              /\ formStatus'[t].className = "form-status success"
              /\ formStatus'[t].display = "block"
              /\ \A f \in DOMAIN contactForm'[t] : contactForm'[t][f] = <<>>]_vars

\* A form that was sent with a non-empty first name is empty after success.
C5_Witness ==
    /\ outcome[1] = "success"
    /\ request[1] # NoRequest
    /\ request[1].firstName # <<>>
    /\ contactForm[1] = DefaultFields
    /\ formStatus[1] = SuccessStatus

-----------------------------------------------------------------------------
(* C6  a non-2xx response shows the server's error text, the form is kept   *)

\* The step in which the handler of tab t resumes from `await
\* response.json()` and runs to its end.
HttpErrorStep(t) == pc[t] = "json" /\ pc'[t] = "idle"

HasProp(body, key) == body.type = "object" /\ key \in DOMAIN body.props
HasText(body, key) == HasProp(body, key) /\ body.props[key] # ""

\* C6 as stated: whenever the body of a non-2xx response has an error field,
\* the status text equals that field, with the error class, and the fields
\* keep their values.
C6_AsStated ==
    [][\A t \in Tabs :
          (HttpErrorStep(t) /\ HasProp(response[t].body, "error")) =>
              /\ formStatus'[t].textContent = response[t].body.props.error
              /\ formStatus'[t].className = "form-status error"
              /\ contactForm'[t] = contactForm[t]]_vars

\* C6 amended: whenever the body of a non-2xx response has a non-empty error
\* field, the status text equals that field (whatever the message field);
\* when the error field is absent or empty and the message field is
\* non-empty, the status text equals the message field; in both cases with
\* the error class, and the form fields keep their values.
C6_ServerErrorShown ==
    [][\A t \in Tabs :
          HttpErrorStep(t) =>
              LET body == response[t].body IN
              /\ HasText(body, "error") =>
                    formStatus'[t] = ErrorStatus(body.props.error)
              /\ (~HasText(body, "error") /\ HasText(body, "message")) =>
                    formStatus'[t] = ErrorStatus(body.props.message)
              /\ contactForm'[t] = contactForm[t]]_vars

\* A 4xx/5xx body with both fields was answered with the error field, and
\* the typed values are still in the form.
C6_Witness ==
    /\ outcome[1] = "httpError"
    /\ HasText(response[1].body, "error")
    /\ HasText(response[1].body, "message")
    /\ formStatus[1].textContent = response[1].body.props.error
    /\ contactForm[1] = FilledFields

-----------------------------------------------------------------------------
(* C7  a non-2xx response without usable body shows the generic fallback    *)

\* The body is not JSON, or is a JSON value with neither field.
NoErrorNoMessage(body) ==
    ~HasProp(body, "error") /\ ~HasProp(body, "message")

\* C7: for every non-2xx response whose body is not JSON or is any JSON value
\* without error and message field (null included), the status shows the
\* generic fallback as an error status, never the connectivity message.
C7_FallbackShown ==
    [][\A t \in Tabs :
          (HttpErrorStep(t) /\ NoErrorNoMessage(response[t].body)) =>
              formStatus'[t] = ErrorStatus(FALLBACK_TEXT)]_vars

-----------------------------------------------------------------------------
(* C8  a rejected fetch shows the connectivity message                      *)

\* C8: whenever the request fails at network level (fetch rejects), the
\* status shows the fixed connectivity message with the error class.
C8_ConnectivityShown ==
    [][\A t \in Tabs :
          (pc[t] = "fetch" /\ response'[t] = Rejected) =>
              /\ formStatus'[t].textContent = CONNECTIVITY_TEXT
              /\ formStatus'[t].className = "form-status error"
              /\ formStatus'[t].display = "block"]_vars

\* The last run ended with a rejected fetch.
C8_Witness ==
    /\ outcome[1] = "networkError"
    /\ response[1] = Rejected
    /\ formStatus[1].textContent = CONNECTIVITY_TEXT

-----------------------------------------------------------------------------
(* C9  every terminal path re-enables the control and sets its label        *)

GuardAborts == {"honeypot", "rateLimited"}

\* C9 as stated: for every initial label and every terminal outcome, when the
\* handler has finished the control is enabled and its label is the label it
\* had before the submission started; guard aborts leave it enabled too.
C9_AsStated ==
    \A t \in Tabs :
        /\ outcome[t] \in TerminalOutcomes =>
              /\ ~submitBtn[t].disabled
              /\ submitBtn[t].textContent = labelBefore[t]
        /\ outcome[t] \in GuardAborts => ~submitBtn[t].disabled

\* C9 amended: for every initial label and every terminal outcome (success,
\* HTTP error, network error), when the handler has finished the control is
\* enabled and its label is the fixed text 'Send Message', which is the label
\* it had before the submission exactly when that label was 'Send Message';
\* a guard abort leaves the control enabled with its label untouched.  So
\* every finished path leaves the form usable for a retry.
C9_ControlRestored ==
    \A t \in Tabs :
        /\ outcome[t] \in TerminalOutcomes =>
              /\ ~submitBtn[t].disabled
              /\ submitBtn[t].textContent = SEND_LABEL
              /\ (submitBtn[t].textContent = labelBefore[t])
                    <=> (labelBefore[t] = SEND_LABEL)
        /\ outcome[t] \in GuardAborts =>
              /\ ~submitBtn[t].disabled
              /\ submitBtn[t].textContent = labelBefore[t]
        /\ pc[t] = "idle" => ~submitBtn[t].disabled

\* A submission started from a control labelled otherwise ended in a network
\* error; the control is enabled and reads 'Send Message'.
C9_Witness ==
    /\ outcome[1] = "networkError"
    /\ labelBefore[1] # SEND_LABEL
    /\ submitBtn[1] = [disabled |-> FALSE, textContent |-> SEND_LABEL]

-----------------------------------------------------------------------------
(* C10  order of the side effects of a submission that passed the guards    *)

\* The effects of a run without the bookkeeping of the success branch.
OrderedEffects(t) ==
    SelectSeq(effects[t],
              LAMBDA e : e \in {"disable", "sending", "clear", "fetch", "status", "enable"})

\* C10: a submission that passed both guards first disables the control,
\* labels it 'Sending...' and clears the status, then issues exactly one
\* POST; while the request is unresolved no terminal status is rendered; once
\* it has resolved exactly one terminal status is rendered and then the
\* control is re-enabled.
C10_EffectsOrdered ==
    \A t \in Tabs :
        /\ outcome[t] = "pending" =>
              /\ effects[t] = <<"disable", "sending", "clear", "fetch">>
              /\ submitBtn[t] = [disabled |-> TRUE, textContent |-> SENDING_LABEL]
              /\ formStatus[t].textContent = ""
              /\ formStatus[t].className = "form-status"
              /\ request[t] # NoRequest
              /\ pc[t] \in {"fetch", "json"}
        /\ outcome[t] \in TerminalOutcomes =>
              /\ OrderedEffects(t)
                    = <<"disable", "sending", "clear", "fetch", "status", "enable">>
              /\ Count(effects[t], "fetch") = 1
              /\ Count(effects[t], "status") = 1
              /\ formStatus[t].textContent # ""
              /\ ~submitBtn[t].disabled
              /\ pc[t] = "idle"

\* A second submission, started while the status of the first was showing,
\* has ended with an HTTP error after its own single POST and status.
C10_Witness ==
    /\ outcome[1] = "httpError"
    /\ LedgerReadable
    /\ Len(LedgerItems) >= 1
    /\ LedgerItems[Len(LedgerItems)] = T0
    /\ now = T0
    /\ effects[1] = <<"disable", "sending", "clear", "fetch", "status", "enable", "label">>

-----------------------------------------------------------------------------
(* C11  at most one submission in flight per form                           *)

\* C11: while a request issued by the handler of a form is pending, the
\* submit control of that form is disabled, and no submit event passes the
\* guards and issues a second request: a run that issues a request starts
\* only when no run of the handler is suspended.
C11_OneInFlight ==
    [][\A t \in Tabs :
          /\ pc[t] # "idle" => submitBtn[t].disabled
          /\ (Submit(t) /\ outcome'[t] = "pending") => pc[t] = "idle"]_vars

\* A request is pending, and a further submit would pass both guards.
C11_Witness ==
    /\ pc[1] = "fetch"
    /\ submitBtn[1].disabled
    /\ honeypot[1] = ""
    /\ checkRateLimit(access, localStorage, now).allowed
    /\ request[1] # NoRequest

-----------------------------------------------------------------------------
(* C12  checkRateLimit fails open                                           *)

StorageFault == access = "denied" \/ Malformed(localStorage)

\* C12: whenever reading local storage throws or the stored value does not
\* parse to an array, checkRateLimit returns allowed with an empty sequence;
\* a submit with an empty honeypot then shows no error and goes on to the
\* network call.
C12_FailsOpen ==
    [][\A t \in Tabs :
          StorageFault =>
              /\ checkRateLimit(access, localStorage, now)
                    = [allowed |-> TRUE, submissions |-> <<>>]
              /\ (Submit(t) /\ honeypot[t] = "") =>
                    /\ pc'[t] = "fetch"
                    /\ request'[t] # NoRequest
                    /\ formStatus'[t].textContent = ""
                    /\ formStatus'[t].className = "form-status"
                    /\ "fetch" \in Range(effects'[t])]_vars

\* A request is pending although the stored value is not JSON.
C12_Witness ==
    /\ localStorage = StoredInvalid
    /\ access = "ok"
    /\ pc[1] = "fetch"
    /\ outcome[1] = "pending"
    /\ formStatus[1].textContent = ""

-----------------------------------------------------------------------------
(* C13  only a 2xx response writes the ledger                               *)

\* C13: the stored ledger changes only in the step that handles a 2xx
\* response; a run that ends in a honeypot abort, a rate-limit denial, a
\* non-2xx response or a network failure leaves it exactly as it was.
C13_OnlySuccessWrites ==
    [][/\ localStorage' # localStorage => \E t \in Tabs : SuccessStep(t)
       /\ \A t \in Tabs :
             (outcome'[t] # outcome[t] /\ outcome'[t] # "success") =>
                 localStorage' = localStorage
       /\ \A t \in Tabs : HttpErrorStep(t) => localStorage' = localStorage]_vars

\* A submission that failed with an HTTP error, on a ledger that still holds
\* its nine entries and nothing else.
C13_Witness ==
    /\ outcome[1] = "httpError"
    /\ access = "ok"
    /\ localStorage = JSONstringify(Rep(T0 - RATE_LIMIT_WINDOW_MS + 1, 9))
    /\ now = T0

-----------------------------------------------------------------------------
(* C14  a failing recordSubmission does not change what the visitor sees    *)

\* C14: if the read, the parse or the write inside recordSubmission fails
\* after a 2xx response, nothing is stored and the visitor sees what a
\* successful record shows: success status, form reset, control re-enabled.
C14_RecordFailureSwallowed ==
    [][\A t \in Tabs :
          (SuccessStep(t) /\ (access # "ok" \/ Malformed(localStorage))) =>
              /\ formStatus'[t] = SuccessStatus
              /\ contactForm'[t] = DefaultFields
              /\ submitBtn'[t] = [disabled |-> FALSE, textContent |-> SEND_LABEL]
              /\ localStorage' = localStorage]_vars

\* A success on storage that refuses the write: nothing stored, success shown.
C14_Witness ==
    /\ outcome[1] = "success"
    /\ access = "full"
    /\ localStorage = StoredNull
    /\ formStatus[1] = SuccessStatus
    /\ request[1].firstName # <<>>
    /\ contactForm[1] = DefaultFields

-----------------------------------------------------------------------------
(* C15  the minute count of a denial                                        *)

\* The oldest of the entries that remain after pruning.
OldestRemaining ==
    LET kept == Prune(LedgerItems, now)
    IN  CHOOSE x \in Range(kept) : \A y \in Range(kept) : x <= y

\* Milliseconds until the oldest remaining entry leaves the window.
WaitMs == OldestRemaining + RATE_LIMIT_WINDOW_MS - now

\* n is the ceiling of ms / 60000.
IsCeilingMinutes(n, ms) ==
    /\ n * MS_PER_MINUTE >= ms
    /\ (n - 1) * MS_PER_MINUTE < ms

MaxMinutes == 2 * (RATE_LIMIT_WINDOW_MS \div MS_PER_MINUTE) + 1

\* C15: whenever checkRateLimit denies, its message carries the ceiling of
\* (oldest remaining timestamp + 3,600,000 - now) / 60000 as the minute count,
\* with "minute" when the count is 1 and "minutes" for every other count.
C15_MinuteCount ==
    LET r == checkRateLimit(access, localStorage, now) IN
    ~r.allowed =>
        \E n \in 0..MaxMinutes :
            /\ IsCeilingMinutes(n, WaitMs)
            /\ r.message = "Too many submissions. Please try again in "
                              \o ToString(n)
                              \o (IF n = 1 THEN " minute." ELSE " minutes.")

\* A denial shown one millisecond past the one-minute boundary: two minutes.
C15_Witness ==
    /\ outcome[1] = "rateLimited"
    /\ ~checkRateLimit(access, localStorage, now).allowed
    /\ WaitMs = MS_PER_MINUTE + 1
    /\ formStatus[1].textContent
          = "Too many submissions. Please try again in 2 minutes."

-----------------------------------------------------------------------------
(* C16  getSource precedence                                                *)

\* The page of tab t carries the query parameter key, with whatever value.
Present(t, key) == key \in DOMAIN page[t].search
\* The page of tab t carries the query parameter key with a non-empty value.
HasValue(t, key) == Present(t, key) /\ page[t].search[key] # ""
Sent(t) == request[t] # NoRequest
SourceSent(t) == request[t].tags.source

\* C16 as stated: the source comes from the first of utm_source, ref, source,
\* referrer, "direct" that is present, a parameter being present whatever its
\* value.
C16_AsStated ==
    \A t \in Tabs : Sent(t) =>
        IF Present(t, "utm_source") THEN SourceSent(t) = page[t].search["utm_source"]
        ELSE IF Present(t, "ref") THEN SourceSent(t) = page[t].search["ref"]
        ELSE IF Present(t, "source") THEN SourceSent(t) = page[t].search["source"]
        ELSE IF page[t].referrer # ""
             THEN SourceSent(t) = ClassifyReferrer(page[t].referrer, page[t].hostname)
             ELSE SourceSent(t) = "direct"

\* C16: the source comes from the first of utm_source, ref, source that is
\* present with a non-empty value, else from the classification of a
\* non-empty referrer, else it is "direct"; nothing after the first of these
\* affects the result.
C16_Precedence ==
    \A t \in Tabs : Sent(t) =>
        IF HasValue(t, "utm_source") THEN SourceSent(t) = page[t].search["utm_source"]
        ELSE IF HasValue(t, "ref") THEN SourceSent(t) = page[t].search["ref"]
        ELSE IF HasValue(t, "source") THEN SourceSent(t) = page[t].search["source"]
        ELSE IF page[t].referrer # ""
             THEN SourceSent(t) = ClassifyReferrer(page[t].referrer, page[t].hostname)
             ELSE SourceSent(t) = "direct"

\* ?utm_source=news&ref=aff&source=blog reached from a search result: "news".
C16_Witness ==
    /\ Sent(1)
    /\ page[1].search = [utm_source |-> "news", ref |-> "aff", source |-> "blog"]
    /\ page[1].referrer = "https://www.google.com/search"
    /\ SourceSent(1) = "news"

-----------------------------------------------------------------------------
(* C17  query parameter values are returned verbatim                        *)

\* C17 as stated: a present utm_source is returned whatever its value, the
\* empty value included; ref and source likewise when nothing of higher
\* precedence is present.
C17_AsStated ==
    \A t \in Tabs : Sent(t) =>
        /\ Present(t, "utm_source") => SourceSent(t) = page[t].search["utm_source"]
        /\ (Present(t, "ref") /\ ~Present(t, "utm_source"))
              => SourceSent(t) = page[t].search["ref"]
        /\ (Present(t, "source") /\ ~Present(t, "utm_source") /\ ~Present(t, "ref"))
              => SourceSent(t) = page[t].search["source"]

\* C17: a utm_source with a non-empty value is returned exactly; ref is
\* returned exactly when it is non-empty and utm_source is absent or empty;
\* source is returned exactly when it is non-empty and utm_source and ref are
\* absent or empty.  A parameter with the empty value is never the result
\* on its own account: it is passed over as if it were absent.
C17_ValueVerbatim ==
    \A t \in Tabs : Sent(t) =>
        /\ HasValue(t, "utm_source") => SourceSent(t) = page[t].search["utm_source"]
        /\ (HasValue(t, "ref") /\ ~HasValue(t, "utm_source"))
              => SourceSent(t) = page[t].search["ref"]
        /\ (HasValue(t, "source") /\ ~HasValue(t, "utm_source") /\ ~HasValue(t, "ref"))
              => SourceSent(t) = page[t].search["source"]
        /\ (\A k \in DOMAIN page[t].search : ~HasValue(t, k))
              => SourceSent(t) = getSource([page[t] EXCEPT !.search = NoParams])

\* ?utm_source=&ref=aff: the empty utm_source is passed over, "aff" is sent.
C17_Witness ==
    /\ Sent(1)
    /\ page[1].search = [utm_source |-> "", ref |-> "aff"]
    /\ SourceSent(1) = "aff"

-----------------------------------------------------------------------------
(* C18  referrer classification                                             *)

\* C18: with no utm_source, ref or source parameter, an empty referrer gives
\* "direct", a referrer that does not parse gives "unknown", a referrer on
\* the page's own host gives "internal" whatever the host contains, and
\* otherwise the first of google, facebook (facebook / fb.com), twitter
\* (twitter / t.co), linkedin, instagram found in the host gives that name,
\* and a host with none of them is returned as it is.
C18_ReferrerClassified ==
    \A t \in Tabs : (Sent(t) /\ page[t].search = NoParams) =>
        LET ref == page[t].referrer
            url == URLhostname(ref)
            host == url.hostname
            src == SourceSent(t)
        IN  IF ref = "" THEN src = "direct"
            ELSE IF url.threw THEN src = "unknown"
            ELSE IF host = page[t].hostname THEN src = "internal"
            ELSE IF StrIncludes(host, "google") THEN src = "google"
            ELSE IF StrIncludes(host, "facebook") \/ StrIncludes(host, "fb.com")
                 THEN src = "facebook"
            ELSE IF StrIncludes(host, "twitter") \/ StrIncludes(host, "t.co")
                 THEN src = "twitter"
            ELSE IF StrIncludes(host, "linkedin") THEN src = "linkedin"
            ELSE IF StrIncludes(host, "instagram") THEN src = "instagram"
            ELSE src = host

\* A request sent from the test host, reached from another of its pages: the
\* host contains "t.co" and is still classified "internal".
C18_Witness ==
    /\ Sent(1)
    /\ page[1].search = NoParams
    /\ page[1].hostname = TEST_HOST
    /\ page[1].referrer = "https://www.gadgetcloud-test.com/index.html"
    /\ SourceSent(1) = "internal"

-----------------------------------------------------------------------------
(* C19  the request body                                                    *)

\* r is v without its leading and trailing whitespace.
IsTrimOf(r, v) ==
    \E i, j \in 0..Len(v) :
        /\ i + j <= Len(v)
        /\ r = SubSeq(v, i + 1, Len(v) - j)
        /\ \A k \in 1..i : v[k] \in Whitespace
        /\ \A k \in (Len(v) - j + 1)..Len(v) : v[k] \in Whitespace
        /\ r # <<>> => (r[1] \notin Whitespace /\ r[Len(r)] \notin Whitespace)

-----------------------------------------------------------------------------
(* C20  expired entries are neither counted nor written back                *)

\* An entry is within the window at time t when it is less than an hour old.
WithinWindow(ts, t) == t - ts < RATE_LIMIT_WINDOW_MS
AllWithinWindow(items, t) == \A i \in DOMAIN items : WithinWindow(items[i], t)

\* C20: at every moment a denial by checkRateLimit rests on at least 10
\* stored entries within the window, the sequence it returns when it allows
\* holds only entries within the window, and every ledger value written to
\* storage holds only entries within the window at the time of the write.
C20_NoExpiredEntry ==
    [][/\ LET r == checkRateLimit(access, localStorage, now) IN
          IF r.allowed
          THEN AllWithinWindow(r.submissions, now)
          ELSE Cardinality({i \in DOMAIN LedgerItems :
                               WithinWindow(LedgerItems[i], now)}) >= RATE_LIMIT_MAX
       /\ localStorage' # localStorage =>
             /\ localStorage'.kind = "json"
             /\ localStorage'.value.type = "array"
             /\ AllWithinWindow(localStorage'.value.items, now)]_vars

\* A request went out although the ledger holds ten or more entries: all of
\* them are an hour old.
C20_Witness ==
    /\ pc[1] = "fetch"
    /\ ticks = 0
    /\ LedgerReadable
    /\ Len(LedgerItems) >= RATE_LIMIT_MAX
    /\ \A i \in DOMAIN LedgerItems : ~WithinWindow(LedgerItems[i], now)

-----------------------------------------------------------------------------
(* C21  production deployment needs the typed confirmation                  *)

\* The first argument is none of the names of the staging environment.
ResolvesToProduction(args) == Arg(args, 1) \notin {"stg", "staging"}

\* C21: for every argument list that resolves to production (prd, prod,
\* production, no argument, or any first argument that is not a staging
\* name), no s3 sync and no CloudFront invalidation has run unless exactly
\* "deploy" was read at the confirmation prompt; after any other reply the
\* script has ended with nothing uploaded.
C21_ProductionConfirmed ==
    (deploy.pc # "off" /\ ResolvesToProduction(deploy.args)) =>
        /\ deploy.env = "prd"
        /\ deploy.pc \in {"syncAssets", "syncHtml", "invalidate"} \/ deploy.aws # <<>>
              => deploy.confirmed = Typed("deploy")
        /\ (deploy.confirmed.asked /\ deploy.confirmed # Typed("deploy"))
              => deploy.pc \in {"exit0", "exit1"} /\ deploy.aws = <<>>

\* Run with --skip-tests alone: production, and " deploy" typed with a
\* leading blank ended the script before the first sync.
C21_Witness ==
    /\ deploy.args = <<"--skip-tests">>
    /\ deploy.env = "prd"
    /\ deploy.confirmed = Typed(" deploy")
    /\ deploy.pc = "exit0"
    /\ deploy.aws = <<>>

-----------------------------------------------------------------------------
(* C22  referredBy from the query string                                    *)

\* The request body has a top-level field of that name.
HasField(body, name) == name \in DOMAIN body

\* C22: when the page was opened with a referredBy query parameter, the
\* request body of a submission carries a referredBy field equal to the
\* parameter's value.
C22_ReferredBySent ==
    \A t \in Tabs :
        (Sent(t) /\ Present(t, "referredBy")) =>
            /\ HasField(request[t], "referredBy")
            /\ request[t].referredBy = page[t].search["referredBy"]

-----------------------------------------------------------------------------
(* C23  flat request body with subject                                      *)

\* C23: the request body of a submission carries the subject of the form
\* and the metadata fields source, referrer and pageUrl as top-level fields.
C23_FlatBody ==
    \A t \in Tabs :
        Sent(t) =>
            /\ HasField(request[t], "subject")
            /\ HasField(request[t], "source")
            /\ HasField(request[t], "referrer")
            /\ HasField(request[t], "pageUrl")

-----------------------------------------------------------------------------
(* C24  the control while a request is pending                              *)

Pending(t) == pc[t] # "idle"
SendingControl == [disabled |-> TRUE, textContent |-> SENDING_LABEL]

\* C24: while a request is pending the submit control is disabled and
\* labelled "Sending..."; the only step that enables a disabled control is
\* the one in which the pending request is settled (so without such a step
\* it stays disabled, whatever time passes); and on a network that settles
\* every request, a pending request leads to an enabled control.
C24_PendingControl ==
    /\ [](\A t \in Tabs : Pending(t) => submitBtn[t] = SendingControl)
    /\ [][\A t \in Tabs :
             (submitBtn[t].disabled /\ ~submitBtn'[t].disabled) =>
                 /\ Pending(t)
                 /\ ~Pending(t)'
                 /\ outcome'[t] \in TerminalOutcomes]_vars
    /\ \A t \in Tabs : Pending(t) ~> ~submitBtn[t].disabled

\* The clock has been advanced as far as it goes with the request still
\* pending: the control is still disabled.
C24_Witness ==
    /\ pc[1] = "fetch"
    /\ ticks = MaxTicks
    /\ now >= T0 + RATE_LIMIT_WINDOW_MS - 1
    /\ submitBtn[1] = SendingControl

-----------------------------------------------------------------------------
(* C25  two tabs race on the ledger                                         *)

\* Number of entries of a stored value that are not expired at time t.
NonExpired(stored, t) == Len(LedgerOf(stored, t))

\* C25: the record of a submission does not look at the count again: the
\* step that handles a 2xx response adds one entry to the non-expired
\* entries whatever their number, the ten reached by the other tab included.
\* Each tab having at most one request in flight, the entries in the window
\* stay within 9 plus the number of open tabs.
C25_CheckRecordNotAtomic ==
    [][/\ \A t \in Tabs :
             SuccessStep(t) =>
                 NonExpired(localStorage', now) = NonExpired(localStorage, now) + 1
       /\ NonExpired(localStorage, now) <= RATE_LIMIT_MAX - 1 + Cardinality(tabs)]_vars

\* Both tabs passed the check on nine entries and both recorded: eleven
\* entries in the window.
C25_Witness ==
    /\ tabs = {1, 2}
    /\ outcome[1] = "success"
    /\ outcome[2] = "success"
    /\ NonExpired(localStorage, now) > RATE_LIMIT_MAX

-----------------------------------------------------------------------------
(* C26  one tab never stores more than ten entries                          *)

\* The entries of the stored value, none when the key is absent.
StoredItems(stored) ==
    IF stored.kind = "json" /\ stored.value.type = "array"
    THEN stored.value.items ELSE <<>>

\* C26: in a single tab starting from an absent or empty ledger the stored
\* ledger never holds more than 10 entries; and a write drops only entries
\* that are a full window older than the entry it adds, so the successes
\* recorded within one window of any moment are all among those 10.
C26_AtMostTenStored ==
    [][/\ Len(StoredItems(localStorage)) <= RATE_LIMIT_MAX
       /\ Len(StoredItems(localStorage')) <= RATE_LIMIT_MAX
       /\ \A t \in Tabs :
             SuccessStep(t) =>
                 LET old == StoredItems(localStorage)
                     new == StoredItems(localStorage')
                 IN  /\ new[Len(new)] = now
                     /\ \A i \in DOMAIN old :
                           old[i] \in Range(new) \/ now - old[i] >= RATE_LIMIT_WINDOW_MS
                     /\ \A i \in DOMAIN new : now - new[i] < RATE_LIMIT_WINDOW_MS]_vars

\* Ten submissions have been recorded and the eleventh attempt was denied.
C26_Witness ==
    /\ Len(StoredItems(localStorage)) = RATE_LIMIT_MAX
    /\ outcome[1] = "rateLimited"
    /\ pc[1] = "idle"

-----------------------------------------------------------------------------
(* C27  a malformed stored value is never repaired                          *)

\* JSON.parse of the stored text would not give an array: the empty string,
\* text that is not JSON, or JSON of another type.
NotParseableAsArray(stored) == stored.kind = "empty" \/ Malformed(stored)

\* C27 as stated: a stored value that is not parseable as an array is never
\* rewritten, and checkRateLimit allows while it is there.
C27_AsStated ==
    [][NotParseableAsArray(localStorage) =>
          /\ localStorage' = localStorage
          /\ checkRateLimit(access, localStorage, now).allowed]_vars

\* C27: a non-empty stored value that is not parseable as an array is never
\* rewritten by any step, successful submissions included, and while it is
\* there checkRateLimit allows and every submit with an empty honeypot goes
\* on to the network call.  (The empty string is read as an empty ledger
\* and is replaced by the first successful submission.)
C27_MalformedStays ==
    [][/\ Malformed(localStorage) =>
             /\ localStorage' = localStorage
             /\ checkRateLimit(access, localStorage, now).allowed
             /\ \A t \in Tabs : (Submit(t) /\ honeypot[t] = "") => pc'[t] = "fetch"
       /\ \A t \in Tabs :
             (SuccessStep(t) /\ localStorage.kind = "empty" /\ access = "ok") =>
                 localStorage' = JSONstringify(<<now>>)]_vars

\* A submission succeeded and the stored "{}" is still there.
C27_Witness ==
    /\ outcome[1] = "success"
    /\ access = "ok"
    /\ localStorage = StoredObject
    /\ formStatus[1] = SuccessStatus

-----------------------------------------------------------------------------
(* C28  the advertised wait is sufficient                                   *)

\* The text of a denial that advertises n minutes.
DenialText(n) ==
    "Too many submissions. Please try again in " \o ToString(n)
        \o (IF n = 1 THEN " minute." ELSE " minutes.")

\* Moments at or after the end of the advertised wait: its very end, one
\* millisecond, one minute and one hour later.
LaterBy == {0, 1, MS_PER_MINUTE, RATE_LIMIT_WINDOW_MS}

\* C28: in a single tab whose ledger holds what its own submissions wrote
\* (at most 10 entries, none in the future), if checkRateLimit denies with
\* "N minute(s)" now, then with the ledger as it is checkRateLimit allows at
\* now + N minutes and at every later moment.
C28_WaitSufficient ==
    LET r == checkRateLimit(access, localStorage, now) IN
    ~r.allowed =>
        \A n \in 0..MaxMinutes :
            r.message = DenialText(n) =>
                \A d \in LaterBy :
                    checkRateLimit(access, localStorage,
                                   now + n * MS_PER_MINUTE + d).allowed

\* A denial that advertises 1 minute, 59,999 ms before the oldest entry
\* leaves the window, in a tab that has just been denied.
C28_Witness ==
    /\ outcome[1] = "rateLimited"
    /\ LedgerReadable
    /\ Len(LedgerItems) = RATE_LIMIT_MAX
    /\ WaitMs = MS_PER_MINUTE - 1
    /\ checkRateLimit(access, localStorage, now).message = DenialText(1)
    /\ checkRateLimit(access, localStorage, now + MS_PER_MINUTE).allowed

-----------------------------------------------------------------------------
(* C29  checkRateLimit does not write                                       *)

\* C29: a submit event, which is where checkRateLimit runs, leaves the
\* stored value exactly as it was, whether the key is absent, holds expired
\* entries, or is malformed, and whether the check allows or denies; the
\* stored value changes only in the step that handles a 2xx response.
C29_CheckDoesNotWrite ==
    [][/\ \A t \in Tabs : Submit(t) => localStorage' = localStorage
       /\ localStorage' # localStorage =>
             \E t \in Tabs : SuccessStep(t) /\ "record" \in Range(effects'[t])]_vars

\* A denial on a ledger of ten recent entries and one expired entry: the
\* expired entry is still stored.
C29_Witness ==
    /\ outcome[1] = "rateLimited"
    /\ ticks = 0
    /\ LedgerReadable
    /\ Len(LedgerItems) = RATE_LIMIT_MAX + 1
    /\ Len(AgeBelowWindow(LedgerItems, now)) = RATE_LIMIT_MAX
    /\ ~WithinWindow(LedgerItems[Len(LedgerItems)], now)

-----------------------------------------------------------------------------
(* C30  range of the minute count                                           *)

\* One window in minutes.
WindowMinutes == RATE_LIMIT_WINDOW_MS \div MS_PER_MINUTE

\* Some stored entry carries a time later than now.
FutureStored == \E i \in DOMAIN LedgerItems : LedgerItems[i] > now

\* C30: whenever checkRateLimit denies, its message carries a minute count
\* of at least 1; the count is at most 60 when no stored timestamp lies in
\* the future, and it is above 60 exactly when the oldest entry that
\* remains lies in the future.
C30_MinuteRange ==
    LET r == checkRateLimit(access, localStorage, now) IN
    ~r.allowed =>
        \E n \in 1..MaxMinutes :
            /\ r.message = DenialText(n)
            /\ ~FutureStored => n <= WindowMinutes
            /\ n > WindowMinutes <=> OldestRemaining > now

\* A denial on ten entries written by a clock that ran ahead, now one
\* millisecond in the future: 61 minutes.
C30_Witness ==
    /\ outcome[1] = "rateLimited"
    /\ LedgerReadable
    /\ \A i \in DOMAIN LedgerItems : LedgerItems[i] = now + 1
    /\ formStatus[1].textContent = DenialText(WindowMinutes + 1)

====
